---- MODULE Spec2Model ----
(***************************************************************************)
(* Model of brownie/network/event.py: the EventWatcher (registration,      *)
(* poll loop, dispatch loop, stop), the decoders _decode_logs and          *)
(* _decode_trace with the EventDict they return, and the merge of topic    *)
(* maps in _get_topics.                                                    *)
(*                                                                         *)
(* Time is counted in ticks of 0.05 s.  A timestamp t is kept as the time  *)
(* elapsed since t (time.time() - t), which is all the code ever computes  *)
(* from it; the elapsed time is capped one tick above the delay it is      *)
(* compared with.                                                          *)
(***************************************************************************)
EXTENDS Integers, Sequences, FiniteSets, TLC

\* ---------------------------------------------------------------- bounds
MaxEntries == 2      \* log entries the filters return, in all
MaxLogs == 4         \* length of the list passed to _decode_logs
MaxEvents == 4       \* length of the event list _decode_trace gets from eth_event
MaxMerges == 3       \* calls of _get_topics

\* ------------------------------------------------------- program constants
MinDelay == 1        \* max(delay, 0.05)
ExecSleep == 2       \* time.sleep(0.1) of the dispatch loop
MaxSleep == 40       \* sleep_time = 2.0, the maximal sleep of the poll loop

Callers == {1, 2}    \* the threads that call add_event_callback, one call each
DelayArgs == {0, 1}  \* the delay argument: below the floor, at the floor
\* the largest delay a subscription gets: max(delay, 0.05) over DelayArgs
MaxDelay == CHOOSE d \in DelayArgs \cup {MinDelay} :
                \A a \in DelayArgs \cup {MinDelay} : a <= d
\* A sleep lasts at least its duration.  Every timer of the model saturates one
\* tick above its delay, so a sleep longer than Horizon ticks ends after every
\* timer running at its start has saturated, as one of Horizon ticks does:
\* the ticks of a sleep are counted up to Horizon.
Horizon == MaxDelay + 1
NoTask == [id |-> 0, sub |-> 0, events |-> << >>]

Min(a, b) == IF a < b THEN a ELSE b
Max(a, b) == IF a > b THEN a ELSE b

VARIABLES
    \* EventWatcher fields
    kill,          \* _kill
    has_started,   \* _has_started
    lock,          \* target_list_lock: 0 free, c held by caller c, -1 by the poll loop
    data,          \* target_events_watch_data: sequence of subscriptions
    queue,         \* _queue: sequence of tasks
    wd,            \* the EventWatchData objects, by the caller that creates them
    \* the chain, behind the log filters
    emitted,       \* number of log entries the filters have returned so far
    \* callers of add_event_callback
    cpc,
    \* _watch_loop
    ppc, pidx, sleep_time, pexc, psleep,
    \* _execute_callbacks
    dpc, task, didx, dsleep,
    \* caller of stop
    spc,
    \* history
    nextTask,      \* tasks enqueued so far
    ran,           \* the tasks whose trigger function was invoked, in order
    delivered,     \* per subscription, the entries passed to the callback, in order
    returned,      \* per subscription, the entries its cursor returned, in order
    killMark,      \* the number of tasks enqueued before _kill was set
    late,          \* ids of the tasks dequeued after _kill was set
    \* _decode_logs
    logs, contracts, decoded,
    \* _decode_trace: the events eth_event decodes from the trace
    trace,
    \* the EventDict that _decode_logs or _decode_trace returns
    result,
    \* _get_topics
    topics,        \* the global _topics
    topic_map,     \* eth_event.get_topic_map(abi) of the latest call
    file,          \* the content of topics.json
    \* history
    old_topics,    \* _topics as the latest call of _get_topics found it
    wrote,         \* the latest call of _get_topics wrote topics.json
    merges         \* calls of _get_topics so far

wvars == <<kill, has_started, lock, data, queue, wd, emitted, cpc,
           ppc, pidx, sleep_time, pexc, psleep, dpc, task, didx, dsleep,
           spc, nextTask, ran, delivered, returned, killMark, late>>
tvars == <<topics, topic_map, file, old_topics, wrote, merges>>
dvars == <<logs, contracts, decoded, trace, result, tvars>>
vars == <<wvars, dvars>>

\* ------------------------------------------------------ EventWatchData
NoData == [created |-> FALSE, delay |-> 0, repeat |-> FALSE,
           cooldown_time_over |-> FALSE, since |-> 0]

\* delay = max(delay, 0.05)
ClampDelay(d) == Max(d, MinDelay)

\* EventWatchData.__init__: a fresh filter, the flag down, the timer restarted
NewWatchData(delay, repeat) ==
    [created |-> TRUE, delay |-> delay, repeat |-> repeat,
     cooldown_time_over |-> FALSE, since |-> 0]

\* the property getter of cooldown_time_over: raises the flag once the timer
\* has reached the delay, and returns the flag
CooldownGetter(w) == IF w.since >= w.delay THEN TRUE ELSE w.cooldown_time_over

\* check_timer: raises the flag like the getter and returns the time left
CheckTimerFlag(w) == IF w.since >= w.delay THEN TRUE ELSE w.cooldown_time_over
CheckTimerLeft(w) == w.delay - w.since

\* the filter inverted: the prune keeps the subscriptions that do not repeat
KeepNonRepeating(w) == ~w.repeat

\* no filter: the prune keeps every subscription
KeepAll(w) == TRUE

\* the filter of the prune step: filter(lambda x: x.repeat, ...)
KeepOnPrune(w) == w.repeat

\* a loop that does not read the kill flag: while True
LoopIgnoresKill(k) == TRUE

\* while not self._kill
LoopCondition(k) == ~k

\* a queue that hands out its newest task first
QueueNewest(q) == q[Len(q)]

\* a get that empties the queue
QueueCleared(q) == << >>

\* Queue.get_nowait: the head of the queue, which is removed
QueueHead(q) == Head(q)
QueueRest(q) == Tail(q)

\* ------------------------------------------------------------ initial state
WatcherInit ==
    /\ kill = FALSE
    /\ has_started = FALSE
    /\ lock = 0
    /\ data = << >>
    /\ queue = << >>
    /\ wd = [c \in Callers |-> NoData]
    /\ emitted = 0
    /\ cpc = [c \in Callers |-> "init"]
    /\ ppc = "idle" /\ pidx = 0 /\ sleep_time = 0
    /\ pexc = FALSE /\ psleep = 0
    /\ dpc = "idle" /\ task = NoTask /\ didx = 0 /\ dsleep = 0
    /\ spc = "idle"
    /\ nextTask = 0
    /\ ran = << >>
    /\ delivered = [c \in Callers |-> << >>]
    /\ returned = [c \in Callers |-> << >>]
    /\ killMark = 0
    /\ late = {}

DecodeIdle == logs = << >> /\ contracts = FALSE
              /\ decoded = [status |-> "none", events |-> << >>, warnings |-> 0]

\* no trace decoded, and no EventDict returned yet
NoResult == [built |-> FALSE, ordered |-> << >>, keys |-> << >>, dict |-> << >>]
TraceIdle == trace = << >> /\ result = NoResult

\* _topics: Dict = {}, and topics.json not found (an empty map)
TopicsIdle ==
    /\ topics = << >> /\ topic_map = << >> /\ file = << >>
    /\ old_topics = << >> /\ wrote = FALSE /\ merges = 0

Init == WatcherInit /\ DecodeIdle /\ TraceIdle /\ TopicsIdle

\* ------------------------------------------------- add_event_callback
\* A caller enters add_event_callback and reads _has_started.  The arguments
\* of the call are drawn where the code first reads them.
Call(c) ==
    /\ cpc[c] = "init"
    /\ cpc' = [cpc EXCEPT ![c] = IF has_started = FALSE THEN "startW" ELSE "add"]
    /\ UNCHANGED <<kill, has_started, lock, data, queue, wd, emitted,
                   ppc, pidx, sleep_time, pexc, psleep, dpc, task, didx, dsleep,
                   spc, nextTask, ran, delivered, returned, killMark, late, dvars>>

\* _start_threads: self._watcher_thread.start(); a thread starts only once
StartWatcher(c) ==
    /\ cpc[c] = "startW"
    /\ IF ppc = "idle"
       THEN /\ ppc' = "outer"
            /\ cpc' = [cpc EXCEPT ![c] = "startC"]
       ELSE /\ ppc' = ppc
            /\ cpc' = [cpc EXCEPT ![c] = "RuntimeError"]
    /\ UNCHANGED <<kill, has_started, lock, data, queue, wd, emitted,
                   pidx, sleep_time, pexc, psleep, dpc, task, didx, dsleep,
                   spc, nextTask, ran, delivered, returned, killMark, late, dvars>>

\* _start_threads: self._callback_thread.start()
StartCallback(c) ==
    /\ cpc[c] = "startC"
    /\ IF dpc = "idle"
       THEN /\ dpc' = "outer"
            /\ cpc' = [cpc EXCEPT ![c] = "started"]
       ELSE /\ dpc' = dpc
            /\ cpc' = [cpc EXCEPT ![c] = "RuntimeError"]
    /\ UNCHANGED <<kill, has_started, lock, data, queue, wd, emitted,
                   ppc, pidx, sleep_time, pexc, psleep, task, didx, dsleep,
                   spc, nextTask, ran, delivered, returned, killMark, late, dvars>>

\* _start_threads: self._has_started = True
SetStarted(c) ==
    /\ cpc[c] = "started"
    /\ has_started' = TRUE
    /\ cpc' = [cpc EXCEPT ![c] = "add"]
    /\ UNCHANGED <<kill, lock, data, queue, wd, emitted,
                   ppc, pidx, sleep_time, pexc, psleep, dpc, task, didx, dsleep,
                   spc, nextTask, ran, delivered, returned, killMark, late, dvars>>

\* _add_event_callback with a callback that is not callable: raise TypeError
RejectCallback(c) ==
    /\ cpc[c] = "add"
    /\ cpc' = [cpc EXCEPT ![c] = "TypeError"]
    /\ UNCHANGED <<kill, has_started, lock, data, queue, wd, emitted,
                   ppc, pidx, sleep_time, pexc, psleep, dpc, task, didx, dsleep,
                   spc, nextTask, ran, delivered, returned, killMark, late, dvars>>

\* _add_event_callback with a callable: target_list_lock.acquire()
Acquire(c) ==
    /\ cpc[c] = "add"
    /\ lock = 0
    /\ lock' = c
    /\ cpc' = [cpc EXCEPT ![c] = "create"]
    /\ UNCHANGED <<kill, has_started, data, queue, wd, emitted,
                   ppc, pidx, sleep_time, pexc, psleep, dpc, task, didx, dsleep,
                   spc, nextTask, ran, delivered, returned, killMark, late, dvars>>

\* _add_event_callback: EventWatchData(event, callback, max(delay, 0.05),
\* repeat, from_block) is built (createFilter may raise, and then the lock
\* stays held), appended, and the lock released
CreateAndAppend(c) ==
    /\ cpc[c] = "create"
    /\ \E ok \in BOOLEAN, delay \in DelayArgs, repeat \in BOOLEAN :
          IF ok
          THEN /\ wd' = [wd EXCEPT ![c] = NewWatchData(ClampDelay(delay), repeat)]
               /\ data' = Append(data, c)
               /\ lock' = 0
               /\ cpc' = [cpc EXCEPT ![c] = "returned"]
          ELSE /\ cpc' = [cpc EXCEPT ![c] = "FilterError"]
               /\ UNCHANGED <<wd, data, lock>>
    /\ UNCHANGED <<kill, has_started, queue, emitted,
                   ppc, pidx, sleep_time, pexc, psleep, dpc, task, didx, dsleep,
                   spc, nextTask, ran, delivered, returned, killMark, late, dvars>>

\* ----------------------------------------------------------- _watch_loop
\* Steps that touch nothing another thread reads (the end of a sleep, the end
\* of the for loop, the prune under the lock) are taken with the step that
\* follows them or that they follow.

\* the position after the element at pidx: the next element, or the finally block
AfterElem == IF pidx + 1 > Len(data) THEN "prune" ELSE "iter"

\* while not self._kill: sleep_time = 2.0 (first entered when the thread
\* starts, then when time.sleep returns; an exception of the try block leaves
\* the loop after the finally block has slept)
PollOuter ==
    /\ ppc = "outer" \/ (ppc = "sleep" /\ psleep = 0)
    /\ IF pexc
       THEN ppc' = "FilterError" /\ sleep_time' = sleep_time
       ELSE IF LoopCondition(kill)
            THEN ppc' = "lock" /\ sleep_time' = MaxSleep
            ELSE ppc' = "done" /\ sleep_time' = sleep_time
    /\ UNCHANGED <<kill, has_started, lock, data, queue, wd, emitted, cpc,
                   pidx, pexc, psleep, dpc, task, didx, dsleep,
                   spc, nextTask, ran, delivered, returned, killMark, late, dvars>>

\* self.target_list_lock.acquire(); for elem in ...
PollAcquire ==
    /\ ppc = "lock"
    /\ lock = 0
    /\ lock' = -1
    /\ pidx' = 1
    /\ ppc' = IF Len(data) = 0 THEN "prune" ELSE "iter"
    /\ UNCHANGED <<kill, has_started, data, queue, wd, emitted, cpc,
                   sleep_time, pexc, psleep, dpc, task, didx, dsleep,
                   spc, nextTask, ran, delivered, returned, killMark, late, dvars>>

\* if elem.cooldown_time_over is False (the getter runs)
PollCheck ==
    /\ ppc = "iter"
    /\ LET s == data[pidx]
           over == CooldownGetter(wd[s])
       IN  /\ wd' = [wd EXCEPT ![s].cooldown_time_over = over]
           /\ ppc' = IF over THEN "pull" ELSE "timer"
    /\ UNCHANGED <<kill, has_started, lock, data, queue, emitted, cpc,
                   pidx, sleep_time, pexc, psleep, dpc, task, didx, dsleep,
                   spc, nextTask, ran, delivered, returned, killMark, late, dvars>>

\* sleep_time = min(sleep_time, elem.check_timer()); continue
PollTimer ==
    /\ ppc = "timer"
    /\ LET s == data[pidx]
       IN  /\ wd' = [wd EXCEPT ![s].cooldown_time_over = CheckTimerFlag(wd[s])]
           /\ sleep_time' = Min(sleep_time, CheckTimerLeft(wd[s]))
    /\ pidx' = pidx + 1
    /\ ppc' = AfterElem
    /\ UNCHANGED <<kill, has_started, lock, data, queue, emitted, cpc,
                   pexc, psleep, dpc, task, didx, dsleep,
                   spc, nextTask, ran, delivered, returned, killMark, late, dvars>>

\* the entries numbered from + 1 .. from + n, in order
Entries(from, n) == [k \in 1..n |-> from + k]

\* latest_events = elem.get_new_events(): the filter raises, or returns the
\* entries that matched since it was last asked (any number the bound
\* allows, none included); a non-empty batch is put on the queue;
\* sleep_time = min(sleep_time, elem.delay)
PollPull ==
    /\ ppc = "pull"
    /\ \E ok \in BOOLEAN, n \in 0..(MaxEntries - emitted) :
          IF ok
          THEN LET s == data[pidx]
                   latest_events == Entries(emitted, n)
               IN  /\ emitted' = emitted + n
                   /\ returned' = [returned EXCEPT ![s] = @ \o latest_events]
                   /\ IF Len(latest_events) # 0
                      THEN /\ queue' = Append(queue, [id |-> nextTask + 1, sub |-> s,
                                                      events |-> latest_events])
                           /\ nextTask' = nextTask + 1
                      ELSE UNCHANGED <<queue, nextTask>>
                   /\ sleep_time' = Min(sleep_time, wd[s].delay)
                   /\ pidx' = pidx + 1
                   /\ ppc' = AfterElem
                   /\ pexc' = pexc
          ELSE /\ n = 0
               /\ pexc' = TRUE
               /\ ppc' = "prune"
               /\ UNCHANGED <<emitted, returned, queue, nextTask, sleep_time, pidx>>
    /\ UNCHANGED <<kill, has_started, lock, data, wd, cpc,
                   psleep, dpc, task, didx, dsleep,
                   spc, ran, delivered, killMark, late, dvars>>

\* finally: the list is replaced by list(filter(lambda x: x.repeat, ...)), the
\* lock released and time.sleep(sleep_time) entered; time.sleep raises
\* ValueError on a negative duration
PollPrune ==
    /\ ppc = "prune"
    /\ data' = SelectSeq(data, LAMBDA s : KeepOnPrune(wd[s]))
    /\ lock' = 0
    /\ IF sleep_time < 0
       THEN ppc' = "ValueError" /\ psleep' = psleep
       ELSE ppc' = "sleep" /\ psleep' = Min(sleep_time, Horizon)
    /\ pidx' = 0
    /\ UNCHANGED <<kill, has_started, queue, wd, emitted, cpc,
                   sleep_time, pexc, dpc, task, didx, dsleep,
                   spc, nextTask, ran, delivered, returned, killMark, late, dvars>>

PollExited == ppc \in {"done", "ValueError", "FilterError"}

\* ---------------------------------------------------- _execute_callbacks
\* a dispatch loop that goes on after a callback raised
ExecOuterRestarts ==
    /\ dpc = "outer" \/ (dpc = "sleep" /\ dsleep = 0) \/ dpc = "CallbackError"
    /\ dpc' = IF LoopCondition(kill) THEN "drain" ELSE "done"
    /\ UNCHANGED <<kill, has_started, lock, data, queue, wd, emitted, cpc,
                   ppc, pidx, sleep_time, pexc, psleep, task, didx, dsleep,
                   spc, nextTask, ran, delivered, returned, killMark, late, dvars>>

\* while not self._kill (first entered when the thread starts, then when
\* time.sleep(0.1) returns)
ExecOuter ==
    /\ dpc = "outer" \/ (dpc = "sleep" /\ dsleep = 0)
    /\ dpc' = IF LoopCondition(kill) THEN "drain" ELSE "done"
    /\ UNCHANGED <<kill, has_started, lock, data, queue, wd, emitted, cpc,
                   ppc, pidx, sleep_time, pexc, psleep, task, didx, dsleep,
                   spc, nextTask, ran, delivered, returned, killMark, late, dvars>>

\* while self._queue.qsize() > 0: task_data = self._queue.get_nowait();
\* with the queue empty, time.sleep(0.1)
ExecDrain ==
    /\ dpc = "drain"
    /\ IF Len(queue) > 0
       THEN /\ task' = QueueHead(queue)
            /\ queue' = QueueRest(queue)
            /\ late' = IF kill THEN late \cup {QueueHead(queue).id} ELSE late
            /\ dpc' = "trigger"
            /\ dsleep' = dsleep
       ELSE /\ dpc' = "sleep"
            /\ dsleep' = ExecSleep
            /\ UNCHANGED <<task, queue, late>>
    /\ UNCHANGED <<kill, has_started, lock, data, wd, emitted, cpc,
                   ppc, pidx, sleep_time, pexc, psleep, didx,
                   spc, nextTask, ran, delivered, returned, killMark, dvars>>

\* _trigger_callback is entered: self.cooldown_time_over = False
ExecTrigger ==
    /\ dpc = "trigger"
    /\ wd' = [wd EXCEPT ![task.sub].cooldown_time_over = FALSE]
    /\ ran' = Append(ran, task)
    /\ dpc' = "stamp"
    /\ UNCHANGED <<kill, has_started, lock, data, queue, emitted, cpc,
                   ppc, pidx, sleep_time, pexc, psleep, task, didx, dsleep,
                   spc, nextTask, delivered, returned, killMark, late, dvars>>

\* the trigger function of s was invoked before its latest invocation
TriggeredBefore(s) == \E i \in 1..(Len(ran) - 1) : ran[i].sub = s

\* _trigger_callback: self._update_trigger_time()
ExecStamp ==
    /\ dpc = "stamp"
    /\ wd' = [wd EXCEPT ![task.sub].since = 0]
    /\ didx' = 1
    /\ dpc' = "callback"
    /\ UNCHANGED <<kill, has_started, lock, data, queue, emitted, cpc,
                   ppc, pidx, sleep_time, pexc, psleep, task, dsleep,
                   spc, nextTask, ran, delivered, returned, killMark, late, dvars>>

\* _trigger_callback: for data in events_data: self.callback(data); the
\* callback returns or raises, and an exception ends the dispatch loop; after
\* the last entry of the batch the inner loop reads the queue size again
ExecCallbackOn(outcomes) ==
    /\ dpc = "callback"
    /\ delivered' = [delivered EXCEPT ![task.sub] = Append(@, task.events[didx])]
    /\ \E ok \in outcomes :
          IF ~ok
          THEN dpc' = "CallbackError" /\ UNCHANGED <<didx, task>>
          ELSE IF didx < Len(task.events)
               THEN didx' = didx + 1 /\ UNCHANGED <<dpc, task>>
               ELSE dpc' = "drain" /\ didx' = 0 /\ task' = NoTask
    /\ UNCHANGED <<kill, has_started, lock, data, queue, wd, emitted, cpc,
                   ppc, pidx, sleep_time, pexc, psleep, dsleep,
                   spc, nextTask, ran, returned, killMark, late, dvars>>

ExecCallback == ExecCallbackOn(BOOLEAN)

\* the same step with a callback that returns
ExecCallbackReturns == ExecCallbackOn({TRUE})

ExecExited == dpc \in {"done", "CallbackError"}

\* inside the inner loop, which does not read _kill
Draining == dpc \in {"drain", "trigger", "stamp", "callback"}

\* ------------------------------------------------------------------ stop
\* stop(wait=True): self._kill = True.  (stop(wait=False) is this step alone:
\* the joins that follow only observe the loops.)
Stop ==
    /\ spc = "idle"
    /\ kill' = TRUE
    /\ killMark' = nextTask
    /\ spc' = "joinW"
    /\ UNCHANGED <<has_started, lock, data, queue, wd, emitted, cpc,
                   ppc, pidx, sleep_time, pexc, psleep, dpc, task, didx, dsleep,
                   nextTask, ran, delivered, returned, late, dvars>>

\* self._watcher_thread.join(): RuntimeError on a thread that was not started
JoinWatcher ==
    /\ spc = "joinW"
    /\ ppc = "idle" \/ PollExited
    /\ spc' = IF ppc = "idle" THEN "RuntimeError" ELSE "joinC"
    /\ UNCHANGED <<kill, has_started, lock, data, queue, wd, emitted, cpc,
                   ppc, pidx, sleep_time, pexc, psleep, dpc, task, didx, dsleep,
                   nextTask, ran, delivered, returned, killMark, late, dvars>>

\* self._callback_thread.join()
JoinCallback ==
    /\ spc = "joinC"
    /\ dpc = "idle" \/ ExecExited
    /\ spc' = IF dpc = "idle" THEN "RuntimeError" ELSE "returned"
    /\ UNCHANGED <<kill, has_started, lock, data, queue, wd, emitted, cpc,
                   ppc, pidx, sleep_time, pexc, psleep, dpc, task, didx, dsleep,
                   nextTask, ran, delivered, returned, killMark, late, dvars>>

\* ------------------------------------------------------- the environment
\* 0.05 s pass: every timer advances, every sleep comes one tick nearer its end
Elapse(w) == IF w.created THEN [w EXCEPT !.since = Min(@ + 1, w.delay + 1)] ELSE w

Tick ==
    /\ wd' = [c \in Callers |-> Elapse(wd[c])]
    /\ psleep' = IF ppc = "sleep" THEN Max(psleep - 1, 0) ELSE psleep
    /\ dsleep' = IF dpc = "sleep" THEN Max(dsleep - 1, 0) ELSE dsleep
    /\ <<wd', psleep', dsleep'>> # <<wd, psleep, dsleep>>
    /\ UNCHANGED <<kill, has_started, lock, data, queue, emitted, cpc,
                   ppc, pidx, sleep_time, pexc, dpc, task, didx,
                   spc, nextTask, ran, delivered, returned, killMark, late, dvars>>

\* ------------------------------------------------------- specification
Register == \E c \in Callers :
               \/ Call(c) \/ StartWatcher(c) \/ StartCallback(c) \/ SetStarted(c)
               \/ RejectCallback(c) \/ Acquire(c) \/ CreateAndAppend(c)

WatchLoop == PollOuter \/ PollAcquire \/ PollCheck \/ PollTimer \/ PollPull
             \/ PollPrune

ExecuteCallbacks == ExecOuter \/ ExecDrain \/ ExecTrigger \/ ExecStamp
                    \/ ExecCallback

StopCall == Stop \/ JoinWatcher \/ JoinCallback

Next == Register \/ WatchLoop \/ ExecuteCallbacks \/ StopCall \/ Tick

Spec == Init /\ [][Next]_vars

\* ------------------------------------------------------------- EventDict
\* A decoded event is a record of its name, its address and its data (the
\* log index stands for the data).  Positions count from 0, as enumerate does.
None == "None"

\* _EventItem(i["name"], i["address"], [OrderedDict(...)], (pos,))
OrderedItem(ev, pos) ==
    [name |-> ev.name, address |-> ev.address, ordered |-> <<ev.logIndex>>,
     pos |-> <<pos>>]

\* self._ordered = [_EventItem(...) for pos, i in enumerate(events)]
Ordered(events) == [i \in 1..Len(events) |-> OrderedItem(events[i], i - 1)]

\* for event in self._ordered: if event.name not in self._dict: the names
\* in the order they are first met
FirstSeen(ordered) ==
    LET first == SelectSeq([i \in 1..Len(ordered) |-> i],
                           LAMBDA i : \A j \in 1..(i - 1) :
                                         ordered[j].name # ordered[i].name)
    IN  [k \in 1..Len(first) |-> ordered[first[k]].name]

\* a comprehension without its condition: every item is a member
GroupEveryItem(ordered, name) == ordered

\* events = [i for i in self._ordered if i.name == event.name]
GroupMembers(ordered, name) == SelectSeq(ordered, LAMBDA i : i.name = name)

\* _EventItem(event.name, None, events, tuple(i.pos[0] for i in events))
GroupItem(ordered, name) ==
    LET events == GroupMembers(ordered, name)
    IN  [name |-> name, address |-> None, ordered |-> events,
         pos |-> [k \in 1..Len(events) |-> events[k].pos[1]]]

\* EventDict.__init__: _ordered, and _dict as the OrderedDict of its keys and
\* its values in insertion order
EventDict(events) ==
    LET ordered == Ordered(events)
        keys == FirstSeen(ordered)
    IN  [built |-> TRUE, ordered |-> ordered, keys |-> keys,
         dict |-> [k \in 1..Len(keys) |-> GroupItem(ordered, keys[k])]]

\* EventDict.count(name)
Count(r, name) == Len(SelectSeq(r.ordered, LAMBDA i : i.name = name))

\* EventDict.keys()
Keys(r) == r.keys

\* EventDict.__len__
Length(r) == Len(r.ordered)

\* EventDict.__getitem__ with a name that fired
GetItem(r, name) == r.dict[CHOOSE k \in 1..Len(r.keys) : r.keys[k] = name]

\* ---------------------------------------------------------- _decode_logs
\* A log entry: the emitting address, what decoding it leads to (a known
\* event, a topic the topic map does not know, data that is malformed for
\* its topic, a ds-note), and the rest of the entry (its log index).
\* Entries compare by value, as Python dicts do.
Addresses == {"a1", "a2"}
Kinds == {"event", "unknown", "malformed", "note"}
LogIndexes == {0, 1}
LogEntry == [address : Addresses, kind : Kinds, logIndex : LogIndexes]

NotDecoded == [status |-> "none", events |-> << >>, warnings |-> 0]

\* list.index(x): the first position that holds a value equal to x
ListIndex(ls, x) == CHOOSE i \in 1..Len(ls) : ls[i] = x /\ \A j \in 1..(i - 1) : ls[j] # x

\* next(i for i in logs[idx:] if i["address"] != address), as a position;
\* 0 stands for StopIteration
NextOtherAddress(ls, idx, address) ==
    LET others == {i \in idx..Len(ls) : ls[i].address # address}
    IN  IF others = {} THEN 0 ELSE CHOOSE i \in others : \A j \in others : i <= j

\* _decode_ds_note: the event a ds-note log decodes to, when the contract of
\* its address is given and knows the selector
DsNote(item) == [name |-> "note", address |-> item.address,
                 logIndex |-> item.logIndex, formatted |-> FALSE]

\* eth_event.decode_logs([item], topics_map, allow_undecoded=True): one event,
\* undecoded when the topic is not an event of the map
StandardEvent(item) ==
    [name |-> IF item.kind = "event" THEN "event" ELSE "undecoded",
     address |-> item.address, logIndex |-> item.logIndex, formatted |-> FALSE]

\* a decoder without allow_undecoded: an unknown topic is an error as well
DecodeItemStrict(item, withContracts) ==
    IF withContracts /\ item.kind = "note"
    THEN [events |-> <<DsNote(item)>>, warnings |-> 0]
    ELSE IF item.kind \in {"malformed", "unknown"}
         THEN [events |-> << >>, warnings |-> 1]
         ELSE [events |-> <<StandardEvent(item)>>, warnings |-> 0]

\* the body of "for item in log_slice" for one item: the events it adds and
\* the warnings it emits
DecodeItem(item, withContracts) ==
    IF withContracts /\ item.kind = "note"
    THEN [events |-> <<DsNote(item)>>, warnings |-> 0]
    ELSE IF item.kind = "malformed"
         THEN [events |-> << >>, warnings |-> 1]
         ELSE [events |-> <<StandardEvent(item)>>, warnings |-> 0]

RECURSIVE DecodeSlice(_, _, _)
DecodeSlice(log_slice, withContracts, acc) ==
    IF log_slice = << >>
    THEN acc
    ELSE LET r == DecodeItem(Head(log_slice), withContracts)
         IN  DecodeSlice(Tail(log_slice), withContracts,
                         [events |-> acc.events \o r.events,
                          warnings |-> acc.warnings + r.warnings])

\* format_event
FormatEvent(ev) == [ev EXCEPT !.formatted = TRUE]

\* the slice of one pass of the while loop: logs[idx:new_idx], or logs[idx:]
\* on StopIteration
SliceEnd(ls, idx) ==
    LET other == NextOtherAddress(ls, idx, ls[idx].address)
    IN  IF other = 0 THEN Len(ls) + 1 ELSE ListIndex(ls, ls[other])

LastIsLast(log_slice, ls) == log_slice[Len(log_slice)] = ls[Len(ls)]

\* the while loop from position idx on (positions count from 1)
RECURSIVE DecodeLoop(_, _, _, _)
DecodeLoop(ls, withContracts, idx, acc) ==
    LET new_idx == SliceEnd(ls, idx)
        log_slice == SubSeq(ls, idx, new_idx - 1)
        acc2 == DecodeSlice(log_slice, withContracts, acc)
    IN  IF log_slice = << >>
        THEN [status |-> "IndexError", events |-> << >>, warnings |-> acc2.warnings]
        ELSE IF LastIsLast(log_slice, ls)
             THEN [status |-> "ok",
                   events |-> [i \in 1..Len(acc2.events) |-> FormatEvent(acc2.events[i])],
                   warnings |-> acc2.warnings]
             ELSE DecodeLoop(ls, withContracts, new_idx, acc2)

DecodeLogs(ls, withContracts) ==
    IF ls = << >>
    THEN [status |-> "ok", events |-> << >>, warnings |-> 0]
    ELSE DecodeLoop(ls, withContracts, 1, [events |-> << >>, warnings |-> 0])

DecodeInit ==
    /\ WatcherInit
    /\ \E n \in 0..MaxLogs : logs \in [1..n -> LogEntry]
    /\ contracts \in BOOLEAN
    /\ decoded = NotDecoded
    /\ TraceIdle
    /\ TopicsIdle

\* _decode_logs(logs, contracts) is called; it returns EventDict(events)
\* unless it raises
Decode ==
    /\ decoded = NotDecoded
    /\ decoded' = DecodeLogs(logs, contracts)
    /\ result' = IF decoded'.status = "ok" THEN EventDict(decoded'.events)
                  ELSE result
    /\ UNCHANGED <<wvars, logs, contracts, trace, tvars>>

DecodeSpec == DecodeInit /\ [][Decode]_vars

\* --------------------------------------------------------- _decode_trace
\* The events eth_event.decode_traceTransaction returns for a trace: any
\* list of events, of two names and two addresses.
EventNames == {"Transfer", "Approval"}
TraceEvent == [name : EventNames, address : Addresses, logIndex : {0},
               formatted : {FALSE}]
EventLists == UNION {[1..n -> TraceEvent] : n \in 0..MaxEvents}

TraceInit ==
    /\ WatcherInit
    /\ DecodeIdle
    /\ TopicsIdle
    /\ trace \in EventLists
    /\ result = NoResult

\* _decode_trace(trace, initial_address): EventDict() for an empty trace, else
\* EventDict([format_event(i) for i in events])
DecodeTrace ==
    /\ result = NoResult
    /\ result' = IF trace = << >>
                  THEN EventDict(<< >>)
                  ELSE EventDict([i \in 1..Len(trace) |-> FormatEvent(trace[i])])
    /\ UNCHANGED <<wvars, logs, contracts, decoded, trace, tvars>>

TraceSpec == TraceInit /\ [][DecodeTrace]_vars

\* ----------------------------------------------------------- _get_topics
\* A topic is the hash of an event's name and input types: the definitions
\* of one topic differ in the names of their inputs and in which inputs are
\* indexed.  Here every event has two inputs, and the first has two names.
Hashes == {"t1", "t2"}
FirstInputNames == {"from", "src"}
Definitions ==
    {[name |-> "Transfer",
      inputs |-> <<[name |-> n, indexed |-> a], [name |-> "value", indexed |-> b]>>] :
        n \in FirstInputNames, a \in BOOLEAN, b \in BOOLEAN}

\* a dict from topics to definitions: a function on the topics it holds
TopicMaps == UNION {[K -> Definitions] : K \in SUBSET Hashes}

\* a test that finds no indexed input in any definition
NeverIndexed(d) == FALSE

\* next((i for i in updated_topics[key]["inputs"] if i["indexed"]), False),
\* as a truth value
HasIndexed(d) == \E i \in 1..Len(d.inputs) : d.inputs[i].indexed

\* a merge that replaces an entry only by a definition with an indexed input
UpdatedTopicsIndexedOnly(old, tm) ==
    [key \in DOMAIN old \cup DOMAIN tm |->
        IF key \notin DOMAIN tm THEN old[key]
        ELSE IF key \notin DOMAIN old THEN tm[key]
        ELSE IF tm[key] = old[key] THEN old[key]
        ELSE IF ~HasIndexed(old[key]) /\ HasIndexed(tm[key]) THEN tm[key]
        ELSE old[key]]

\* updated_topics after the for loop over topic_map.items()
UpdatedTopics(old, tm) ==
    [key \in DOMAIN old \cup DOMAIN tm |->
        IF key \notin DOMAIN tm THEN old[key]
        ELSE IF key \notin DOMAIN old THEN tm[key]
        ELSE IF tm[key] = old[key] THEN old[key]
        ELSE IF ~HasIndexed(old[key]) THEN tm[key]
        ELSE old[key]]

\* a test that always reports a change
AlwaysChanged(updated_topics, old) == TRUE

\* if updated_topics != _topics
Changed(updated_topics, old) == updated_topics # old

\* dict.update
DictUpdate(a, b) ==
    [key \in DOMAIN a \cup DOMAIN b |-> IF key \in DOMAIN b THEN b[key] ELSE a[key]]

\* _topics as the module sets it when it is imported: what topics.json
\* holds, the empty map included
TopicsInit ==
    /\ WatcherInit
    /\ DecodeIdle
    /\ TraceIdle
    /\ topics \in TopicMaps
    /\ file = topics
    /\ old_topics = topics
    /\ topic_map = << >>
    /\ wrote = FALSE
    /\ merges = 0

\* _get_topics(abi), with topic_map = eth_event.get_topic_map(abi)
GetTopics ==
    /\ merges < MaxMerges
    /\ merges' = merges + 1
    /\ old_topics' = topics
    /\ \E tm \in TopicMaps :
          LET updated_topics == UpdatedTopics(topics, tm)
          IN  /\ topic_map' = tm
              /\ IF Changed(updated_topics, topics)
                 THEN /\ topics' = DictUpdate(topics, updated_topics)
                      /\ file' = updated_topics
                      /\ wrote' = TRUE
                 ELSE /\ UNCHANGED <<topics, file>>
                      /\ wrote' = FALSE
    /\ UNCHANGED <<wvars, logs, contracts, decoded, trace, result>>

TopicsSpec == TopicsInit /\ [][GetTopics]_vars

\* The watcher while stop is never requested and every callback returns; the
\* scheduler runs the dispatch thread and lets time pass.
QuietExecute == ExecOuter \/ ExecDrain \/ ExecTrigger \/ ExecStamp
                \/ ExecCallbackReturns

QuietNext == Register \/ WatchLoop \/ QuietExecute \/ Tick

QuietSpec == Init /\ [][QuietNext]_vars /\ WF_vars(QuietExecute) /\ WF_vars(Tick)

\* ------------------------------------------------------------- helpers
InList(d, s) == \E i \in 1..Len(d) : d[i] = s
Elems(q) == {q[i] : i \in 1..Len(q)}
IsPrefix(a, b) == Len(a) <= Len(b) /\ SubSeq(b, 1, Len(a)) = a
NoDuplicates(q) == \A i, j \in 1..Len(q) : q[i] = q[j] => i = j
TaskIds == 1..MaxEntries
RunCount(t) == Cardinality({i \in 1..Len(ran) : ran[i].id = t})

\* ------------------------------------------------------------------ C1
\* C1: two successive invocations of a subscription's trigger function are at
\* least its delay apart: when the trigger function stamps its trigger time
\* and it has been invoked before, the time since the previous stamp has
\* reached the delay.
CooldownBetweenTriggers ==
    [][(dpc = "stamp" /\ dpc' = "callback" /\ TriggeredBefore(task.sub))
          => wd[task.sub].since >= wd[task.sub].delay]_vars

\* ------------------------------------------------------------------ C2
\* C2: a subscription with repeat=False stays in the active list through
\* every poll pass in which its cooldown has not elapsed: whenever it leaves
\* the list, its cooldown is over.
NonRepeatingKeptUntilCooldown ==
    [][\A s \in Callers :
          (InList(data, s) /\ ~InList(data', s)) => CooldownGetter(wd[s])]_vars

\* ------------------------------------------------------------------ C3
\* C3: once register has returned for a subscription with repeat=True, the
\* subscription is in the active list in every later state.
RepeatingStaysRegistered ==
    \A c \in Callers : (cpc[c] = "returned" /\ wd[c].repeat) => InList(data, c)

\* a prune has removed a non-repeating subscription registered beside a
\* repeating one, which is still listed
RepeatingSurvivesPrune ==
    \E c, d \in Callers :
        /\ cpc[c] = "returned" /\ wd[c].repeat /\ InList(data, c)
        /\ cpc[d] = "returned" /\ ~wd[d].repeat /\ ~InList(data, d)
        /\ ppc = "sleep"

\* ------------------------------------------------------------------ C4
\* C4: per subscription, the callback receives the log entries in the order
\* the cursor returned them (what was delivered is an initial part of what
\* the cursor returned) and no entry more than once.
DeliveredInCursorOrder ==
    \A s \in Callers : IsPrefix(delivered[s], returned[s]) /\ NoDuplicates(delivered[s])

\* two batches of one subscription were dispatched, an entry each
TwoBatchesDelivered ==
    /\ Len(ran) = 2
    /\ ran[1].sub = ran[2].sub
    /\ Len(delivered[ran[1].sub]) = 2
    /\ dpc = "drain"

\* ------------------------------------------------------------------ C5
\* C5: under fair scheduling, while stop is not requested and no callback
\* raises (QuietSpec), a task that was enqueued is eventually run; and no
\* task is run twice.
EveryTaskRunsOnce ==
    /\ [](\A t \in TaskIds : RunCount(t) <= 1)
    /\ \A t \in TaskIds : (nextTask >= t) ~> (RunCount(t) = 1)

\* every task the bound allows was enqueued and run, with no stop and no
\* callback failure
AllTasksRan ==
    /\ ~kill
    /\ dpc = "sleep"
    /\ nextTask = MaxEntries
    /\ \A t \in TaskIds : RunCount(t) = 1

\* ------------------------------------------------------------------ C6
\* C6: stop(wait=True) returns without error whenever it is called.
StopNeverFails == spc # "RuntimeError"

\* ------------------------------------------------------------------ C7
\* a task whose trigger function was invoked had every entry delivered
Completed(i) ==
    \A k \in 1..Len(ran[i].events) : ran[i].events[k] \in Elems(delivered[ran[i].sub])

\* the dispatch loop leaves through its loop check only with every task it
\* dequeued run to completion
InFlightCompletes ==
    dpc = "done" => (task = NoTask /\ \A i \in 1..Len(ran) : Completed(i))

\* C7 as stated: a dequeued task runs to completion, and no task that was in
\* the queue when the kill flag was set is dispatched afterwards.
QueuedAtStopNeverDispatched ==
    /\ InFlightCompletes
    /\ \A t \in late : t > killMark

\* C7 as amended: a dequeued task runs to completion, and once the kill flag
\* is set a dispatch loop that is outside its drain loop (sleeping, at its
\* loop check, not started) never dequeues a task again: only a drain
\* already in progress when the flag is set still dispatches queued tasks.
StopEndsDispatchOutsideDrain ==
    /\ []InFlightCompletes
    /\ [][(kill /\ ~Draining) => ~Draining']_vars

\* a task that was in the queue when the kill flag was set was dispatched by
\* the drain in progress, ran to completion, and the dispatch loop has left
DrainInProgressFinished ==
    /\ dpc = "done"
    /\ \E i \in 1..Len(ran) : ran[i].id \in late /\ ran[i].id <= killMark /\ Completed(i)

\* ------------------------------------------------------------------ C8
\* C8: a register call that fails with the type error leaves an idle watcher
\* idle: while every call made so far has failed that way, no loop is
\* started and no subscription is listed.
RejectedCallLeavesIdle ==
    (\A c \in Callers : cpc[c] \in {"init", "TypeError"})
        => (ppc = "idle" /\ dpc = "idle" /\ has_started = FALSE /\ data = << >>)

\* ------------------------------------------------------------------ C9
\* C9: with concurrent register calls on an idle watcher no call fails on
\* the lazy start of the loops.
ConcurrentStartNeverFails == \A c \in Callers : cpc[c] # "RuntimeError"

\* ----------------------------------------------------------------- C10
\* an entry decodes: as a ds-note, as an event, or undecoded
Decodes(item) == item.kind # "malformed"

\* the record of an entry that decodes
RecordOf(item, withContracts) == FormatEvent(DecodeItem(item, withContracts).events[1])

ExpectedRecords(ls, withContracts) ==
    LET good == SelectSeq(ls, Decodes)
    IN  [i \in 1..Len(good) |-> RecordOf(good[i], withContracts)]

\* C10: for a non-empty list, decode returns one record for each entry that
\* decodes and none for the others, in the order of the entries.
DecodeKeepsEveryDecodedEntry ==
    (decoded.status # "none" /\ Len(logs) > 0)
        => (decoded.status = "ok" /\ decoded.events = ExpectedRecords(logs, contracts))

\* ----------------------------------------------------------------- C11
\* a definition with at least one indexed input
Indexed(d) == \E i \in DOMAIN d.inputs : d.inputs[i].indexed

\* C11: no merge removes a topic, and no merge changes the entry of a topic
\* whose definition has an indexed input.
IndexedEntriesNeverChange ==
    [][\A h \in DOMAIN topics :
          /\ h \in DOMAIN topics'
          /\ Indexed(topics[h]) => topics'[h] = topics[h]]_vars

\* a merge brought another definition for a topic whose definition has an
\* indexed input, and the entry is as it was
IndexedEntryKept ==
    /\ merges > 0
    /\ \E h \in DOMAIN old_topics \cap DOMAIN topic_map :
          /\ Indexed(old_topics[h])
          /\ topic_map[h] # old_topics[h]
          /\ topics[h] = old_topics[h]

\* ----------------------------------------------------------------- C12
\* the latest merge added every topic that was absent
AbsentTopicsAdded ==
    /\ DOMAIN topics = DOMAIN old_topics \cup DOMAIN topic_map
    /\ \A h \in DOMAIN topic_map \ DOMAIN old_topics : topics[h] = topic_map[h]

\* C12 as stated: a merge replaces an entry only when the incoming entry has
\* an indexed field and the existing one has none; every other entry is
\* preserved, and the absent topics are added.
ReplacedOnlyByIndexed ==
    merges > 0 =>
        /\ AbsentTopicsAdded
        /\ \A h \in DOMAIN old_topics :
              topics[h] # old_topics[h]
                  => /\ h \in DOMAIN topic_map
                     /\ Indexed(topic_map[h])
                     /\ ~Indexed(old_topics[h])

\* C12 as amended: a merge replaces an entry exactly when the incoming entry
\* differs from it and the existing one has no indexed field, whether or not
\* the incoming entry has one; every other entry is preserved, and the
\* absent topics are added.
ReplacedOnlyWithoutIndexed ==
    merges > 0 =>
        /\ AbsentTopicsAdded
        /\ \A h \in DOMAIN old_topics :
              IF h \in DOMAIN topic_map /\ topic_map[h] # old_topics[h]
                     /\ ~Indexed(old_topics[h])
              THEN topics[h] = topic_map[h]
              ELSE topics[h] = old_topics[h]

\* a merge replaced a definition without indexed inputs by a different one
\* without indexed inputs
UnindexedReplacedByUnindexed ==
    /\ merges > 0
    /\ \E h \in DOMAIN old_topics \cap DOMAIN topic_map :
          /\ ~Indexed(old_topics[h]) /\ ~Indexed(topic_map[h])
          /\ topic_map[h] # old_topics[h]
          /\ topics[h] = topic_map[h]

\* ----------------------------------------------------------------- C13
\* every entry of the map merged last was present and identical
AllPresentAndIdentical ==
    \A h \in DOMAIN topic_map : h \in DOMAIN old_topics /\ old_topics[h] = topic_map[h]

\* C13: a merge of a map whose entries are all present and identical leaves
\* the global map unchanged and writes nothing; a merge writes only when it
\* changed the map, and what it writes is the merged map.
IdenticalMergeWritesNothing ==
    merges > 0 =>
        /\ AllPresentAndIdentical => (topics = old_topics /\ ~wrote)
        /\ wrote => (topics # old_topics /\ file = topics)

\* a second merge brought a non-empty map that is the global map itself,
\* and wrote nothing
SameMapMergedAgain ==
    /\ merges = 2
    /\ topic_map # << >>
    /\ topics = topic_map
    /\ AllPresentAndIdentical
    /\ ~wrote

\* ----------------------------------------------------------------- C14
RECURSIVE SumOfCounts(_, _)
SumOfCounts(r, k) ==
    IF k = 0 THEN 0 ELSE Count(r, Keys(r)[k]) + SumOfCounts(r, k - 1)

\* the positions, from 0, at which the events passed in have the name
PositionsOf(events, name) == {i \in 0..(Len(events) - 1) : events[i + 1].name = name}
FirstPosition(events, name) ==
    CHOOSE i \in PositionsOf(events, name) : \A j \in PositionsOf(events, name) : i <= j
Ascending(q) == \A i, j \in 1..Len(q) : i < j => q[i] < q[j]

\* C14: in the record set built from a list of decoded events, the counts of
\* the keys add up to the length, which is the number of events; the group
\* of a name has count(name) members; its pos lists, ascending, exactly the
\* positions whose event has the name; and keys() lists the names in the
\* order they first occur.
GroupsPartitionPositions ==
    result.built =>
        /\ Length(result) = Len(trace)
        /\ SumOfCounts(result, Len(Keys(result))) = Length(result)
        /\ \A i \in 1..Len(trace) : result.ordered[i].name = trace[i].name
        /\ Elems(Keys(result)) = {trace[i].name : i \in 1..Len(trace)}
        /\ NoDuplicates(Keys(result))
        /\ \A k, l \in 1..Len(Keys(result)) :
              k < l => FirstPosition(trace, Keys(result)[k])
                           < FirstPosition(trace, Keys(result)[l])
        /\ \A k \in 1..Len(Keys(result)) :
              LET name == Keys(result)[k]
                  group == GetItem(result, name)
              IN  /\ group.name = name
                  /\ Len(group.ordered) = Count(result, name)
                  /\ Ascending(group.pos)
                  /\ Elems(group.pos) = PositionsOf(trace, name)

\* a record set of two names, the first of them at positions 0 and 2
GroupWithGapBuilt ==
    /\ result.built
    /\ Len(Keys(result)) = 2
    /\ GetItem(result, Keys(result)[1]).pos = <<0, 2>>

\* ----------------------------------------------------------------- C15
\* the addresses that emitted the members of a group
MemberAddresses(group) == {trace[group.pos[k] + 1].address : k \in 1..Len(group.pos)}

AddressIsCommonAddress(group) ==
    IF Cardinality(MemberAddresses(group)) = 1
    THEN group.address \in MemberAddresses(group)
    ELSE group.address = None

\* C15: the address of every group, by position and by name, is the common
\* address of its members when they share one, and null only otherwise.
GroupAddressIsCommonAddress ==
    result.built =>
        /\ \A i \in 1..Length(result) : AddressIsCommonAddress(result.ordered[i])
        /\ \A k \in 1..Len(Keys(result)) : AddressIsCommonAddress(result.dict[k])

\* ----------------------------------------------------------------- C16
\* _decode_logs was called on two consecutive logs of one address, both of
\* the given kind
TwoLogsOfKind(kind) ==
    /\ decoded.status # "none"
    /\ Len(logs) = 2
    /\ logs[1].address = logs[2].address
    /\ logs[1].kind = kind /\ logs[2].kind = kind

\* C16 as stated: two consecutive logs of one address with an unknown topic
\* are both dropped, with a warning each, and the result is empty.
UnknownTopicEntriesDropped ==
    TwoLogsOfKind("unknown")
        => (decoded.status = "ok" /\ decoded.warnings = 2 /\ Length(result) = 0)

\* C16 as amended: two consecutive logs of one address with an unknown topic
\* are both kept as undecoded records, with no warning; two logs whose data
\* is malformed for a known topic are both dropped, with a warning each.
UnknownTopicEntriesKept ==
    /\ TwoLogsOfKind("unknown")
          => /\ decoded.status = "ok" /\ decoded.warnings = 0
             /\ result.built /\ Length(result) = 2
             /\ \A i \in 1..2 : /\ result.ordered[i].name = "undecoded"
                                 /\ result.ordered[i].address = logs[i].address
                                 /\ result.ordered[i].ordered = <<logs[i].logIndex>>
    /\ TwoLogsOfKind("malformed")
          => /\ decoded.status = "ok" /\ decoded.warnings = 2
             /\ result.built /\ Length(result) = 0

\* two logs of one address with an unknown topic were decoded
TwoUnknownLogsDecoded ==
    /\ TwoLogsOfKind("unknown")
    /\ logs[1] # logs[2]
    /\ result.built /\ Length(result) = 2

\* ----------------------------------------------------------------- C17
\* the tasks enqueued so far for a subscription: queued, dequeued or run
TasksOf(s) ==
    {queue[i].id : i \in {j \in 1..Len(queue) : queue[j].sub = s}}
        \cup {ran[i].id : i \in {j \in 1..Len(ran) : ran[j].sub = s}}
        \cup (IF task.sub = s THEN {task.id} ELSE {})

\* C17: for a subscription registered with repeat=False the poll loop
\* enqueues at most one task, and its trigger function is invoked at most
\* once.
NonRepeatingFiresAtMostOnce ==
    \A s \in Callers :
        (wd[s].created /\ ~wd[s].repeat)
            => /\ Cardinality(TasksOf(s)) <= 1
               /\ Cardinality({i \in 1..Len(ran) : ran[i].sub = s}) <= 1

\* a non-repeating subscription fired, was pruned, and the chain has more
\* entries to return
NonRepeatingFiredOnce ==
    \E s \in Callers :
        /\ wd[s].created /\ ~wd[s].repeat
        /\ \E i \in 1..Len(ran) : ran[i].sub = s
        /\ ~InList(data, s)
        /\ ppc = "sleep"
        /\ emitted < MaxEntries

LockReleasedAtEnd ==
    /\ \A c \in Callers :
          cpc[c] \in {"init", "startW", "startC", "started", "add", "returned",
                      "TypeError", "RuntimeError", "FilterError"} => lock # c
    /\ ppc \in {"idle", "outer", "lock", "sleep", "done", "ValueError",
                 "FilterError"} => lock # -1

\* ----------------------------------------------------------------- C20
\* C20: the duration the poll loop passes to time.sleep after a pass is
\* between 0 and the maximal sleep time.
SleepTimeWithinBounds ==
    ppc = "prune" => (0 <= sleep_time /\ sleep_time <= MaxSleep)

====
